---- MODULE Spec2Model ----
(***************************************************************************)
(* MongoDBHelper (src/src/mongodb_helper.py): a helper object holding a    *)
(* MongoClient and two lazily bound handles (_database, _collection), and  *)
(* the document store it talks to.  Every public method is one action.     *)
(* The store is modelled by what the pymongo calls made by the helper do:  *)
(* insert_one, find_one, find, delete_one, delete_many, count_documents,   *)
(* drop_collection, drop_database and bulk_write of UpdateOne(upsert=True) *)
(* requests, with the unique immutable _id of every stored document.       *)
(***************************************************************************)
EXTENDS Integers, Sequences, FiniteSets, TLC

\* ---------------------------------------------------------------- bounds
\* The store holds at most MaxDocs documents.
MaxDocs == 2

\* ------------------------------------------------------------- universe
None == "None"
\* Two databases holding a collection of the same name: the namespaces the
\* collection setter tells apart by name only.
Databases == {"db1", "db2"}
Collections == {"c1"}
Namespaces == Databases \X Collections
Fields == {"_id", "age"}
Values == {1, 2}

\* The connection strings a caller may pass: none at all, one MongoClient
\* cannot parse, a well-formed one whose server is down, a well-formed one
\* whose server answers.
URIs == {None, "invalid", "unreachable", "reachable"}

\* A document maps some field names to values.
UserDocs == UNION {[S -> Values] : S \in SUBSET Fields}
EmptyDoc == [f \in {} |-> 0]

\* Query filters: {} or one field equality.
Filters == {EmptyDoc} \cup UNION {[{f} -> Values] : f \in Fields}

\* A batch has at most as many rows as there are values: enough for every
\* key value once, or for one key value twice.
MaxBatch == Cardinality(Values)

RECURSIVE SeqsUpTo(_, _)
SeqsUpTo(S, n) ==
    IF n = 0 THEN {<<>>}
    ELSE LET shorter == SeqsUpTo(S, n - 1)
         IN shorter \cup {Append(s, e) : s \in {t \in shorter : Len(t) = n - 1}, e \in S}

\* A pandas DataFrame: a non-empty column set and rows over exactly these
\* columns; df.to_dict('records') is its row sequence.
DataFrames ==
    UNION {{[columns |-> S, records |-> rows] : rows \in SeqsUpTo([S -> Values], MaxBatch)}
           : S \in (SUBSET Fields) \ {{}}}

VARIABLES
    uri,            \* self.uri
    mongo_client,   \* self.mongo_client: None, or the client and whether its server answers
    constructed,    \* "no" before __init__, then "yes" (it returned) or "failed" (it raised)
    database,       \* self._database: None or the name of the bound Database
    collection,     \* self._collection: the bound Collection, [db, name]
    store,          \* the server: existing namespace <<db, coll>> -> documents in natural order
    call            \* the caller: idle, or holding the call that has just returned or raised

vars == <<uri, mongo_client, constructed, database, collection, store, call>>

NoClient == [made |-> FALSE, reachable |-> FALSE]
NoCollection == [db |-> None, name |-> None]
EmptyStore == [ns \in {} |-> <<>>]

\* ------------------------------------------------------- store (driver)
Docs(st, ns) == IF ns \in DOMAIN st THEN st[ns] ELSE <<>>

Put(st, ns, docs) ==
    [n \in (DOMAIN st) \cup {ns} |-> IF n = ns THEN docs ELSE st[n]]

DropNs(st, gone) == [n \in (DOMAIN st) \ gone |-> st[n]]

Range(s) == {s[i] : i \in 1..Len(s)}

TotalDocs(st) ==
    LET RECURSIVE Sum(_)
        Sum(S) == IF S = {} THEN 0
                  ELSE LET n == CHOOSE n \in S : TRUE IN Len(st[n]) + Sum(S \ {n})
    IN Sum(DOMAIN st)

UsedIds(st) == UNION {{d["_id"] : d \in Range(st[n])} : n \in DOMAIN st}

\* bson.ObjectId(): an identifier no stored document has.  ObjectIds are
\* opaque, the model draws them from the negative integers.
NewObjectId(used) ==
    LET n == CHOOSE n \in 1..(Cardinality(used) + 1) :
                 /\ (0 - n) \notin used
                 /\ \A m \in 1..(n - 1) : (0 - m) \in used
    IN 0 - n

\* A query filter matches a document that has every field with that value.
Matches(doc, filter) ==
    \A f \in DOMAIN filter : f \in DOMAIN doc /\ doc[f] = filter[f]

\* Index of the first matching document in natural order, 0 when none.
FirstMatch(docs, filter) ==
    IF \E i \in 1..Len(docs) : Matches(docs[i], filter)
    THEN CHOOSE i \in 1..Len(docs) :
             /\ Matches(docs[i], filter)
             /\ \A j \in 1..(i - 1) : ~Matches(docs[j], filter)
    ELSE 0

RemoveAt(s, i) == [j \in 1..(Len(s) - 1) |-> IF j < i THEN s[j] ELSE s[j + 1]]

SelectMatching(docs, filter) == SelectSeq(docs, LAMBDA d : Matches(d, filter))

\* {'$set': fields} applied to a document.
SetFields(doc, fields) ==
    [f \in (DOMAIN doc) \cup (DOMAIN fields) |->
        IF f \in DOMAIN fields THEN fields[f] ELSE doc[f]]

WithId(doc, used) ==
    IF "_id" \in DOMAIN doc THEN doc
    ELSE [f \in (DOMAIN doc) \cup {"_id"} |->
            IF f = "_id" THEN NewObjectId(used) ELSE doc[f]]

HasId(docs, id) == \E i \in 1..Len(docs) : docs[i]["_id"] = id

\* ------------------------------------------- pymongo requests (driver)
\* What InsertOne(doc) would do in UpdateOne's place: insert whether or not
\* a document matches.
InsertAlways(docs, used, filter, fields) ==
    LET new == WithId(SetFields(filter, fields), used \cup {d["_id"] : d \in Range(docs)})
    IN IF HasId(docs, new["_id"])
       THEN [docs |-> docs, status |-> "rejected"]
       ELSE [docs |-> Append(docs, new), status |-> "upserted"]

\* UpdateOne(filter, {'$set': fields}, upsert=True) applied by the server:
\* the first matching document gets the fields (its _id cannot change), or,
\* when none matches, the document made of the filter's and the update's
\* fields is inserted (under a new ObjectId when it has no _id; an _id that
\* is already stored is a duplicate key).
UpdateOneUpsert(docs, used, filter, fields) ==
    LET i == FirstMatch(docs, filter)
    IN IF i > 0
       THEN IF "_id" \in DOMAIN fields /\ fields["_id"] # docs[i]["_id"]
            THEN [docs |-> docs, status |-> "rejected"]
            ELSE LET new == SetFields(docs[i], fields)
                 IN [docs |-> [docs EXCEPT ![i] = new],
                     status |-> IF new = docs[i] THEN "matched" ELSE "modified"]
       ELSE LET new == WithId(SetFields(filter, fields),
                              used \cup {d["_id"] : d \in Range(docs)})
            IN IF HasId(docs, new["_id"])
               THEN [docs |-> docs, status |-> "rejected"]
               ELSE [docs |-> Append(docs, new), status |-> "upserted"]

Tally(r, status) ==
    [r EXCEPT !.nMatched = @ + (IF status \in {"matched", "modified"} THEN 1 ELSE 0),
              !.nModified = @ + (IF status = "modified" THEN 1 ELSE 0),
              !.nUpserted = @ + (IF status = "upserted" THEN 1 ELSE 0)]

RECURSIVE BulkFrom(_, _, _, _)
BulkFrom(r, used, operations, i) ==
    IF i > Len(operations) THEN r
    ELSE LET u == UpdateOneUpsert(r.docs, used, operations[i].filter, operations[i].set)
         IN IF u.status = "rejected"
            THEN [r EXCEPT !.failedAt = i]
            ELSE BulkFrom(Tally([r EXCEPT !.docs = u.docs], u.status), used, operations, i + 1)

NoResult(docs) ==
    [docs |-> docs, nMatched |-> 0, nModified |-> 0, nUpserted |-> 0, failedAt |-> 0]

\* (bulk_write(operations, ordered=False): a rejected request is skipped and
\* the rest of the batch is still applied; failedAt is the first rejection.)
RECURSIVE UnorderedFrom(_, _, _, _)
UnorderedFrom(r, used, operations, i) ==
    IF i > Len(operations) THEN r
    ELSE LET u == UpdateOneUpsert(r.docs, used, operations[i].filter, operations[i].set)
         IN IF u.status = "rejected"
            THEN UnorderedFrom([r EXCEPT !.failedAt = IF @ = 0 THEN i ELSE @],
                               used, operations, i + 1)
            ELSE UnorderedFrom(Tally([r EXCEPT !.docs = u.docs], u.status),
                               used, operations, i + 1)

bulk_write_unordered(docs, used, operations) ==
    UnorderedFrom(NoResult(docs), used, operations, 1)

\* Collection.bulk_write(operations), ordered as it is by default: the
\* requests are applied in list order and the first one the server rejects
\* ends the batch; failedAt is its position (0: none), what was applied
\* before it stays applied.
bulk_write(docs, used, operations) == BulkFrom(NoResult(docs), used, operations, 1)

\* -------------------------------------------------------- MongoDBHelper
Self == [database |-> database, collection |-> collection, client |-> mongo_client]

\* pymongo's MongoClient(uri) parses the uri and returns at once; it opens
\* no connection, so a server that is down is noticed by the first request
\* (ServerSelectionTimeoutError), not here.
MongoClient(u) ==
    [raised |-> u = "invalid",
     client |-> [made |-> TRUE, reachable |-> u = "reachable"]]

\* _connect_to_mongodb, as called by __init__.
connect_to_mongodb(u) ==
    IF u = None THEN [outcome |-> "ValueError", client |-> NoClient]
    ELSE IF MongoClient(u).raised THEN [outcome |-> "ConnectionError", client |-> NoClient]
    ELSE [outcome |-> "ok", client |-> MongoClient(u).client]

\* The database property setter.
set_database(self, database_name) ==
    IF self.database = None \/ database_name # self.database
    THEN [self EXCEPT !.database = database_name]
    ELSE self

\* The collection property setter: self.database[collection_name] is a
\* collection of the database bound at that moment.
set_collection(self, collection_name) ==
    IF self.collection = NoCollection \/ self.collection.name # collection_name
    THEN [self EXCEPT !.collection = [db |-> self.database, name |-> collection_name]]
    ELSE self

\* self.database = database_name; self.collection = collection_name
Bind(self, database_name, collection_name) ==
    set_collection(set_database(self, database_name), collection_name)

\* The namespace self.collection sends its requests to.
Target(self) == <<self.collection.db, self.collection.name>>

Ret(self, st, outcome, out) ==
    [self |-> self, store |-> st, outcome |-> outcome, out |-> out]

Unreachable == "ServerSelectionTimeoutError"

get_database_list(st) == {ns[1] : ns \in DOMAIN st}

delete_database(self, st, database_name) ==
    IF ~self.client.reachable
    THEN Ret(self, st, Unreachable, [target |-> <<database_name, None>>, report |-> None])
    ELSE IF database_name \in get_database_list(st)
    THEN LET dropped == DropNs(st, {ns \in DOMAIN st : ns[1] = database_name})
         IN Ret(self, dropped, "ok",
                [target |-> <<database_name, None>>,
                 report |-> IF database_name \notin get_database_list(dropped)
                            THEN "Deleted database" ELSE "Failed to delete database"])
    ELSE Ret(self, st, "ok",
             [target |-> <<database_name, None>>, report |-> "This database doesn't exist"])

get_collection_list(self, st, database_name) ==
    LET s1 == set_database(self, database_name)
    IN IF ~self.client.reachable
       THEN Ret(s1, st, Unreachable, [target |-> <<s1.database, None>>, value |-> {}])
       ELSE Ret(s1, st, "ok",
                [target |-> <<s1.database, None>>,
                 value |-> {ns[2] : ns \in {n \in DOMAIN st : n[1] = s1.database}}])

\* nsNotFoundOk: the 'ok' of the server's answer to dropping a collection
\* that does not exist (0 with "ns not found", 1 on servers that accept it).
delete_collection(self, st, database_name, collection_name, nsNotFoundOk) ==
    LET s1 == Bind(self, database_name, collection_name)
        ns == <<s1.database, collection_name>>
        ok == IF ns \in DOMAIN st THEN 1 ELSE nsNotFoundOk
    IN IF ~self.client.reachable
       THEN Ret(s1, st, Unreachable, [target |-> ns, report |-> None])
       ELSE Ret(s1, DropNs(st, {ns}), "ok",
                [target |-> ns,
                 report |-> IF ok = 1 THEN "Deleted collection"
                            ELSE "Cannot delete collection"])

clean_collection(self, st, database_name, collection_name) ==
    LET s1 == Bind(self, database_name, collection_name)
        ns == Target(s1)
    IN IF ~self.client.reachable
       THEN Ret(s1, st, Unreachable, [target |-> ns, report |-> None])
       ELSE Ret(s1, IF ns \in DOMAIN st THEN Put(st, ns, <<>>) ELSE st, "ok",
                [target |-> ns, report |-> "Cleaned collection"])

insert_one_document(self, st, database_name, collection_name, document) ==
    LET s1 == Bind(self, database_name, collection_name)
        ns == Target(s1)
        doc == WithId(document, UsedIds(st))
    IN IF ~self.client.reachable
       THEN Ret(s1, st, Unreachable, [target |-> ns, report |-> None])
       ELSE IF HasId(Docs(st, ns), doc["_id"])
       THEN Ret(s1, st, "DuplicateKeyError", [target |-> ns, report |-> None])
       ELSE Ret(s1, Put(st, ns, Append(Docs(st, ns), doc)), "ok",
                [target |-> ns, report |-> "Inserted 1 document"])

get_one_document(self, st, database_name, collection_name, filter) ==
    LET s1 == Bind(self, database_name, collection_name)
        ns == Target(s1)
        i == FirstMatch(Docs(st, ns), filter)
    IN IF ~self.client.reachable
       THEN Ret(s1, st, Unreachable, [target |-> ns, value |-> <<>>])
       ELSE Ret(s1, st, "ok",
                [target |-> ns, value |-> IF i > 0 THEN <<Docs(st, ns)[i]>> ELSE <<>>])

delete_one_document(self, st, database_name, collection_name, filter) ==
    LET s1 == Bind(self, database_name, collection_name)
        ns == Target(s1)
        i == FirstMatch(Docs(st, ns), filter)
    IN IF ~self.client.reachable
       THEN Ret(s1, st, Unreachable, [target |-> ns, deleted_count |-> 0])
       ELSE Ret(s1, IF i > 0 THEN Put(st, ns, RemoveAt(st[ns], i)) ELSE st, "ok",
                [target |-> ns, deleted_count |-> IF i > 0 THEN 1 ELSE 0])

get_document_count(self, st, database_name, collection_name, filter) ==
    LET s1 == Bind(self, database_name, collection_name)
        ns == Target(s1)
    IN IF ~self.client.reachable
       THEN Ret(s1, st, Unreachable, [target |-> ns, value |-> 0])
       ELSE Ret(s1, st, "ok",
                [target |-> ns, value |-> Len(SelectMatching(Docs(st, ns), filter))])

get_df(self, st, database_name, collection_name, filter) ==
    LET s1 == Bind(self, database_name, collection_name)
        ns == Target(s1)
    IN IF ~self.client.reachable
       THEN Ret(s1, st, Unreachable, [target |-> ns, value |-> <<>>])
       ELSE Ret(s1, st, "ok",
                [target |-> ns, value |-> SelectMatching(Docs(st, ns), filter)])

\* (What doc.get(primary_key_column) would build: no KeyError, and a filter
\* without the key for a record that lacks it.)
OperationsGet(documents, primary_key_column) ==
    [raised |-> FALSE,
     ops |-> [i \in 1..Len(documents) |->
                 [filter |-> [f \in {primary_key_column} \cap DOMAIN documents[i]
                                 |-> documents[i][f]],
                  set |-> documents[i],
                  upsert |-> TRUE]]]

\* The list of UpdateOne requests upsert_df builds from the records:
\* doc[primary_key_column] raises KeyError for a record without that column,
\* and then no list is built.
Operations(documents, primary_key_column) ==
    IF \E i \in 1..Len(documents) : primary_key_column \notin DOMAIN documents[i]
    THEN [raised |-> TRUE, ops |-> <<>>]
    ELSE [raised |-> FALSE,
          ops |-> [i \in 1..Len(documents) |->
                      [filter |-> [f \in {primary_key_column} |-> documents[i][f]],
                       set |-> documents[i],
                       upsert |-> TRUE]]]

\* (The status line with matched_count and modified_count exchanged.)
ReportSwapped(result) ==
    [matched |-> result.nModified,
     modified |-> result.nMatched,
     upserted |-> result.nUpserted]

\* The counts upsert_df prints from the BulkWriteResult.
Report(result) ==
    [matched |-> result.nMatched,
     modified |-> result.nModified,
     upserted |-> result.nUpserted]

NoReport == [matched |-> 0, modified |-> 0, upserted |-> 0]

\* out.bulk_calls: how many times bulk_write was called; out.failedAt: the
\* position of the rejected request of a BulkWriteError; out.printed: whether
\* the status line was printed.
UpsertOut(ns, calls, failedAt, printed, counts) ==
    [target |-> ns, bulk_calls |-> calls, failedAt |-> failedAt,
     printed |-> printed, counts |-> counts]

upsert_df(self, st, df, database_name, collection_name, primary_key_column) ==
    LET s1 == Bind(self, database_name, collection_name)
        ns == Target(s1)
        documents == df.records
        operations == Operations(documents, primary_key_column)
    IN IF operations.raised
       THEN Ret(s1, st, "KeyError", UpsertOut(ns, 0, 0, FALSE, NoReport))
       ELSE IF Len(operations.ops) = 0
       THEN Ret(s1, st, "InvalidOperation", UpsertOut(ns, 1, 0, FALSE, NoReport))
       ELSE IF ~self.client.reachable
       THEN Ret(s1, st, Unreachable, UpsertOut(ns, 1, 0, FALSE, NoReport))
       ELSE LET result == bulk_write(Docs(st, ns), UsedIds(st), operations.ops)
                written == IF result.docs = Docs(st, ns) THEN st
                           ELSE Put(st, ns, result.docs)
            IN IF result.failedAt > 0
               THEN Ret(s1, written, "BulkWriteError",
                        UpsertOut(ns, 1, result.failedAt, FALSE, NoReport))
               ELSE Ret(s1, written, "ok", UpsertOut(ns, 1, 0, TRUE, Report(result)))

\* ---------------------------------------------------------------- state
\* The caller is single-threaded: it makes one call, holds what came back
\* (call: the method, its arguments, the helper and store as they were when
\* it was made, the outcome and what the method printed or returned), then
\* drops it and goes on.
Idle == [op |-> "idle"]

Init ==
    /\ uri = None
    /\ mongo_client = NoClient
    /\ constructed = "no"
    /\ database = None
    /\ collection = NoCollection
    /\ store = EmptyStore
    /\ call = Idle

\* MongoDBHelper(uri): __init__ returns only when _connect_to_mongodb does.
Construct(u) ==
    /\ call.op = "idle"
    /\ constructed = "no"
    /\ uri' = u
    /\ mongo_client' = connect_to_mongodb(u).client
    /\ constructed' = IF connect_to_mongodb(u).outcome = "ok" THEN "yes" ELSE "failed"
    /\ call' = [op |-> "__init__", arg |-> u, outcome |-> connect_to_mongodb(u).outcome]
    /\ UNCHANGED <<database, collection, store>>

\* A method call on the constructed helper, with what it returned.
Call(op, d, c, arg, r) ==
    /\ call.op = "idle"
    /\ constructed = "yes"
    /\ TotalDocs(r.store) <= MaxDocs
    /\ database' = r.self.database
    /\ collection' = r.self.collection
    /\ store' = r.store
    /\ call' = [op |-> op, db |-> d, coll |-> c, arg |-> arg,
                pre |-> [self |-> Self, store |-> store],
                outcome |-> r.outcome, out |-> r.out]
    /\ UNCHANGED <<uri, mongo_client, constructed>>

\* The caller goes on after the call.
Return ==
    /\ call.op # "idle"
    /\ call' = Idle
    /\ UNCHANGED <<uri, mongo_client, constructed, database, collection, store>>

DeleteDatabase ==
    \E d \in Databases :
        Call("delete_database", d, None, None, delete_database(Self, store, d))

GetCollectionList ==
    \E d \in Databases :
        Call("get_collection_list", d, None, None, get_collection_list(Self, store, d))

DeleteCollection ==
    \E d \in Databases, c \in Collections, ok \in {0, 1} :
        Call("delete_collection", d, c, None, delete_collection(Self, store, d, c, ok))

CleanCollection ==
    \E d \in Databases, c \in Collections :
        Call("clean_collection", d, c, None, clean_collection(Self, store, d, c))

InsertOneDocument ==
    \E d \in Databases, c \in Collections, document \in UserDocs :
        Call("insert_one_document", d, c, document,
             insert_one_document(Self, store, d, c, document))

GetOneDocument ==
    \E d \in Databases, c \in Collections, filter \in Filters :
        Call("get_one_document", d, c, filter, get_one_document(Self, store, d, c, filter))

DeleteOneDocument ==
    \E d \in Databases, c \in Collections, filter \in Filters :
        Call("delete_one_document", d, c, filter,
             delete_one_document(Self, store, d, c, filter))

GetDocumentCount ==
    \E d \in Databases, c \in Collections, filter \in Filters :
        Call("get_document_count", d, c, filter,
             get_document_count(Self, store, d, c, filter))

UpsertDf ==
    \E df \in DataFrames, d \in Databases, c \in Collections, k \in Fields :
        Call("upsert_df", d, c, [df |-> df, key |-> k], upsert_df(Self, store, df, d, c, k))

GetDf ==
    \E d \in Databases, c \in Collections, filter \in Filters :
        Call("get_df", d, c, filter, get_df(Self, store, d, c, filter))

Next ==
    \/ \E u \in URIs : Construct(u)
    \/ Return
    \/ DeleteDatabase
    \/ GetCollectionList
    \/ DeleteCollection
    \/ CleanCollection
    \/ InsertOneDocument
    \/ GetOneDocument
    \/ DeleteOneDocument
    \/ GetDocumentCount
    \/ UpsertDf
    \/ GetDf

Spec == Init /\ [][Next]_vars

\* ------------------------------------------------------------ properties
\* The methods that bind both handles and then use self.collection.
BoundOps ==
    {"upsert_df", "insert_one_document", "get_one_document", "delete_one_document",
     "clean_collection", "get_document_count", "get_df"}

Named == <<call.db, call.coll>>
Batch == call.arg.df.records
Columns == call.arg.df.columns
Key == call.arg.key
KeyValues == IF Key \in Columns THEN {Batch[i][Key] : i \in 1..Len(Batch)} ELSE {}
UpsertReturned == call.op = "upsert_df" /\ call.outcome = "ok"
HasKey(doc, v) == Key \in DOMAIN doc /\ doc[Key] = v
WithKey(docs, v) == {j \in 1..Len(docs) : HasKey(docs[j], v)}
SameNamespace(st1, st2, ns) == (ns \in DOMAIN st1) = (ns \in DOMAIN st2) /\ Docs(st1, ns) = Docs(st2, ns)

\* C1: after upsert_df(B, d, c, k) returns, every record of B has exactly one
\* stored record of d.c with its k value, and that record holds, in every
\* column of B, the values of the last record of B with that k value.
C1_BatchStoredOnce ==
    UpsertReturned =>
        \A i \in 1..Len(Batch) :
            LET docs == Docs(store, Named)
                hits == WithKey(docs, Batch[i][Key])
                winner == CHOOSE w \in 1..Len(Batch) :
                              /\ Batch[w][Key] = Batch[i][Key]
                              /\ \A x \in (w + 1)..Len(Batch) : Batch[x][Key] # Batch[i][Key]
            IN /\ Cardinality(hits) = 1
               /\ \A j \in hits : \A f \in Columns :
                      f \in DOMAIN docs[j] /\ docs[j][f] = Batch[winner][f]

\* C2: every method called with (database_name, collection_name) uses the
\* collection collection_name of the database database_name and no other:
\* after its two setters the bound collection is that one, it is where the
\* request went, and no other namespace changed.
C2_UsesNamedCollection ==
    call.op \in BoundOps =>
        /\ database = call.db
        /\ collection = [db |-> call.db, name |-> call.coll]
        /\ call.out.target = Named
        /\ \A ns \in Namespaces \ {Named} : SameNamespace(call.pre.store, store, ns)

\* C3: upsert_df is idempotent on stored state: run again with the same
\* arguments right after it ran, it leaves every collection as the first
\* run left it.
C3_UpsertIdempotent ==
    call.op = "upsert_df" =>
        upsert_df(Self, store, call.arg.df, call.db, call.coll, Key).store = store

C3_Witness ==
    /\ UpsertReturned /\ call.out.target = Named
    /\ Len(Batch) = 2 /\ Cardinality(KeyValues) = 1 /\ Batch[1] # Batch[2]
    /\ Docs(call.pre.store, call.out.target) # <<>>
    /\ store # call.pre.store

\* C4: after upsert_df(B, d, c, k) returns, the number of stored records of
\* d.c whose k value is a key value of B is the number of distinct key
\* values of B.
C4_CountIsDistinctKeys ==
    UpsertReturned =>
        Cardinality(UNION {WithKey(Docs(store, Named), v) : v \in KeyValues})
            = Cardinality(KeyValues)

\* C5: the counts upsert_df reports: upserted is the number of records
\* written when no stored record had their key (one per key value not stored
\* before the call), matched the number written when one had, modified the
\* number of matched records whose write changed a field; so matched +
\* upserted = |B| and modified <= matched, a batch of n distinct keys on an
\* empty collection gives 0 matched and n upserted, and with distinct keys
\* modified counts the records that differ from the stored one.
C5_ReportedCounts ==
    UpsertReturned =>
        LET before == Docs(call.pre.store, call.out.target)
            after == Docs(store, call.out.target)
            n == call.out.counts
            fresh == {v \in KeyValues : WithKey(before, v) = {}}
            differs(i) ==
                LET m == FirstMatch(before, [f \in {Key} |-> Batch[i][Key]])
                IN m > 0 /\ \E f \in Columns :
                       f \notin DOMAIN before[m] \/ before[m][f] # Batch[i][f]
        IN /\ call.out.printed
           /\ n.upserted = Cardinality(fresh)
           /\ n.upserted = Len(after) - Len(before)
           /\ n.matched + n.upserted = Len(Batch)
           /\ n.modified <= n.matched
           /\ (before = <<>> /\ Cardinality(KeyValues) = Len(Batch)) =>
                  (n.matched = 0 /\ n.upserted = Len(Batch))
           /\ Cardinality(KeyValues) = Len(Batch) =>
                  n.modified = Cardinality({i \in 1..Len(Batch) : differs(i)})

C5_Witness ==
    /\ UpsertReturned /\ call.out.target = Named
    /\ Len(Batch) = 2 /\ Cardinality(KeyValues) = 2 /\ Columns = Fields
    /\ call.out.counts = [matched |-> 2, modified |-> 1, upserted |-> 0]

\* C6: when the key column is absent from a record of the batch, upsert_df
\* raises before any write: bulk_write is not called and no collection
\* changes.
C6_KeyErrorBeforeWrite ==
    (call.op = "upsert_df" /\ Len(Batch) > 0 /\ Key \notin Columns) =>
        /\ call.outcome = "KeyError"
        /\ call.out.bulk_calls = 0
        /\ store = call.pre.store

C6_Witness ==
    /\ call.op = "upsert_df" /\ Len(Batch) > 0 /\ Key \notin Columns
    /\ call.outcome = "KeyError" /\ call.out.target = Named
    /\ Docs(store, Named) # <<>>

\* C7: delete_database on a database that does not exist, and
\* delete_collection / clean_collection on a collection that does not exist,
\* raise nothing, report, and leave the store as it was; and any of the three
\* applied again right after leaves the store as the first left it.
AbsentTarget ==
    \/ call.op = "delete_database" /\ call.db \notin get_database_list(call.pre.store)
    \/ call.op \in {"delete_collection", "clean_collection"} /\ Named \notin DOMAIN call.pre.store

Again ==
    IF call.op = "delete_database" THEN delete_database(Self, store, call.db)
    ELSE IF call.op = "delete_collection"
    THEN delete_collection(Self, store, call.db, call.coll, 0)
    ELSE clean_collection(Self, store, call.db, call.coll)

C7_AbsentTargetIsNoOp ==
    (call.op \in {"delete_database", "delete_collection", "clean_collection"}
        /\ mongo_client.reachable) =>
        /\ Again.store = store
        /\ AbsentTarget => (call.outcome = "ok" /\ call.out.report # None
                            /\ store = call.pre.store)

\* C8: MongoDBHelper() without a URI raises ValueError before a client is
\* made, MongoDBHelper(uri) with a store that cannot be reached raises
\* ConnectionError, and no method ever runs on a helper whose __init__
\* raised.
C8_InitRaises ==
    /\ (call.op = "__init__" /\ uri = None) =>
           (call.outcome = "ValueError" /\ ~mongo_client.made /\ constructed = "failed")
    /\ (call.op = "__init__" /\ uri \in {"invalid", "unreachable"}) =>
           (call.outcome = "ConnectionError" /\ constructed = "failed")
    /\ call.op \notin {"idle", "__init__"} => constructed = "yes"

\* C9 (as claimed): one bulk request, sent once; when the store rejects the
\* write of one record, the writes of all the other records, before and
\* after it, are applied.
C9_OthersAllApplied ==
    (call.op = "upsert_df" /\ call.outcome = "BulkWriteError") =>
        /\ call.out.bulk_calls = 1
        /\ Docs(store, call.out.target)
             = bulk_write_unordered(Docs(call.pre.store, call.out.target),
                                    UsedIds(call.pre.store),
                                    Operations(Batch, Key).ops).docs

\* C9 (amended): one bulk request, sent once and never retried; the request
\* is ordered: when the store rejects the write of one record, the writes of
\* the records before it stay applied, the records after it are not written,
\* and the failure reaches the caller.
C9_OrderedBulk ==
    call.op = "upsert_df" =>
        /\ call.out.bulk_calls <= 1
        /\ call.outcome \in {"ok", "BulkWriteError"} => call.out.bulk_calls = 1
        /\ call.outcome = "BulkWriteError" =>
               LET before == Docs(call.pre.store, call.out.target)
                   used == UsedIds(call.pre.store)
                   ops == Operations(Batch, Key).ops
                   at == call.out.failedAt
                   done == bulk_write(before, used, SubSeq(ops, 1, at - 1))
               IN /\ at \in 1..Len(ops)
                  /\ done.failedAt = 0
                  /\ Docs(store, call.out.target) = done.docs
                  /\ UpdateOneUpsert(done.docs, used, ops[at].filter, ops[at].set).status
                         = "rejected"
                  /\ ~call.out.printed

C9_Witness ==
    /\ call.op = "upsert_df" /\ call.outcome = "BulkWriteError"
    /\ call.out.failedAt = 1 /\ Len(Batch) = 2 /\ call.out.target = Named
    /\ Docs(store, call.out.target)
         # bulk_write_unordered(Docs(call.pre.store, call.out.target),
                                UsedIds(call.pre.store),
                                Operations(Batch, Key).ops).docs

\* C10: upsert_df(B, d, c, k) changes nothing outside the batch: the stored
\* records of d.c whose k value is no key value of B are unchanged, a stored
\* record keeps the fields that are no column of B, every collection other
\* than d.c is unchanged, and d.c loses no record.
C10_Frame ==
    call.op = "upsert_df" =>
        LET before == Docs(call.pre.store, Named)
            after == Docs(store, Named)
        IN /\ Len(after) >= Len(before)
           /\ \A j \in 1..Len(before) :
                  /\ (Key \notin DOMAIN before[j] \/ before[j][Key] \notin KeyValues)
                        => after[j] = before[j]
                  /\ \A f \in (DOMAIN before[j]) \ Columns :
                        f \in DOMAIN after[j] /\ after[j][f] = before[j][f]
           /\ \A ns \in Namespaces \ {Named} : SameNamespace(call.pre.store, store, ns)
====
